---- MODULE Spec2Model ----
(***************************************************************************)
(* Model of pta_replicator: the epoch quantizer and the white-noise        *)
(* injectors of white_noise.py, the SimulatedPulsar handle of simulate.py  *)
(* (sim.py is the same code) and load_pulsar.                              *)
(*                                                                         *)
(* Times, uncertainties and noise amplitudes are physical quantities; the  *)
(* model measures all of them in one tick, so astropy's unit changes       *)
(* (.to('s'), .to('day')) keep the modelled value.  Python indices 0..n-1  *)
(* are 1..n here.  None stands for Python's None.                          *)
(***************************************************************************)
EXTENDS Integers, Sequences, FiniteSets, TLC

VARIABLES q, toas, errors, obsflags, model, residuals, rng, last, nOps, ld

vars == <<q, toas, errors, obsflags, model, residuals, rng, last, nOps, ld>>
psrVars == <<toas, errors, obsflags, model, residuals, rng, last, nOps>>

\* Python values that are None, a number or a list/array.
None == [kind |-> "none", v |-> <<>>]
Scalar(x) == [kind |-> "scalar", v |-> <<x>>]
Array(s) == [kind |-> "array", v |-> s]
FlagValues == {"A", "B"}

\* ---------------------------------------------------------------- bounds
QMaxN == 3
QMaxTime == 3
QMaxDt == 2
MaxN == 3
SeqN == 2
MaxTime == 1
MaxIter == 2
MaxOps == 2
RngStates == 5

\* ------------------------------------------------------------- utilities
RECURSIVE SumTo(_, _)
SumTo(f, n) == IF n = 0 THEN 0 ELSE f[n] + SumTo(f, n - 1)

Range(s) == {s[k] : k \in 1..Len(s)}

\* ------------------------------------------------- quantize_fast (pure)
\* np.argsort(times): an index order that sorts times.  The default kind is
\* not stable, so every order of tied times is a possible result.
Argsorts(times) ==
    {p \in [1..Len(times) -> 1..Len(times)] :
        /\ \A i, j \in 1..Len(times) : i # j => p[i] # p[j]
        /\ \A i, j \in 1..Len(times) : i < j => times[p[i]] <= times[p[j]]}

\* Faulty variant: the boundary test taken as <= dt.
JoinsBucketLe(t, ref, dt) == t - ref <= dt

\* Line 27: the observation joins the last bucket iff it is less than dt
\* after that bucket's reference (first) time.
JoinsBucket(t, ref, dt) == t - ref < dt

\* Lines 26-31: the loop over isort[1:], from position k on.
RECURSIVE QuantizeLoop(_, _, _, _, _, _)
QuantizeLoop(times, isort, dt, k, bucket_ref, bucket_ind) ==
    IF k > Len(isort)
    THEN [bucket_ref |-> bucket_ref, bucket_ind |-> bucket_ind]
    ELSE LET i == isort[k] IN
         IF JoinsBucket(times[i], bucket_ref[Len(bucket_ref)], dt)
         THEN QuantizeLoop(times, isort, dt, k + 1, bucket_ref,
                  [bucket_ind EXCEPT ![Len(bucket_ind)] = Append(@, i)])
         ELSE QuantizeLoop(times, isort, dt, k + 1,
                  Append(bucket_ref, times[i]), Append(bucket_ind, <<i>>))

\* Lines 23-31: the buckets, seeded with the earliest observation.
Buckets(times, isort, dt) ==
    QuantizeLoop(times, isort, dt, 2, <<times[isort[1]]>>, <<<<isort[1]>>>>)

\* Faulty variant: only the first member of each bucket is marked in U.
UMatrixFirstOnly(n, bucket_ind) ==
    [r \in 1..n |-> [c \in 1..Len(bucket_ind) |->
        IF bucket_ind[c][1] = r THEN 1 ELSE 0]]

\* Lines 37-39: U[l, i] = 1 for the member list l of bucket i.
UMatrix(n, bucket_ind) ==
    [r \in 1..n |-> [c \in 1..Len(bucket_ind) |->
        IF r \in Range(bucket_ind[c]) THEN 1 ELSE 0]]

\* Line 33: np.mean(times[ind]), kept as the exact fraction num/den.
Mean(times, ind) ==
    [num |-> SumTo([k \in 1..Len(ind) |-> times[ind[k]]], Len(ind)),
     den |-> Len(ind)]

\* Lines 21-44: quantize_fast for one outcome isort of the argsort.
quantize_fast(times, flags, dt, isort) ==
    LET b == Buckets(times, isort, dt)
        ind == b.bucket_ind
    IN [isort |-> isort,
        bucket_ref |-> b.bucket_ref,
        bucket_ind |-> ind,
        avetoas |-> [c \in 1..Len(ind) |-> Mean(times, ind[c])],
        aveflags |-> IF flags = None THEN None
                     ELSE Array([c \in 1..Len(ind) |-> flags.v[ind[c][1]]]),
        U |-> UMatrix(Len(times), ind)]

\* ------------------------------------------ quantizer specification
NoOut ==
    [isort |-> <<>>, bucket_ref |-> <<>>, bucket_ind |-> <<>>,
     avetoas |-> <<>>, aveflags |-> None, U |-> <<>>]

QInputs ==
    UNION {[times : [1..n -> 0..QMaxTime],
            flags : {None} \cup {Array(f) : f \in [1..n -> FlagValues]},
            dt : 1..QMaxDt] : n \in 1..QMaxN}

PsrIdle ==
    /\ toas = <<>> /\ errors = <<>> /\ obsflags = <<>>
    /\ model = 0 /\ residuals = <<>> /\ rng = 0
    /\ last = [op |-> "none"] /\ nOps = 0

LdIdle == ld = [pc |-> "idle"]

InitQuantize ==
    /\ \E in \in QInputs : q = [pc |-> "start", in |-> in, out |-> NoOut]
    /\ PsrIdle
    /\ LdIdle

\* One call of quantize_fast on the drawn input.
Quantize ==
    /\ q.pc = "start"
    /\ \E isort \in Argsorts(q.in.times) :
         q' = [q EXCEPT !.pc = "done",
                        !.out = quantize_fast(q.in.times, q.in.flags, q.in.dt, isort)]
    /\ UNCHANGED <<psrVars, ld>>

NextQuantize == Quantize

SpecQuantize == InitQuantize /\ [][NextQuantize]_vars

\* ------------------------------------------------- SimulatedPulsar handle
\* Residuals(toas, model): observed minus predicted arrival time.  The timing
\* model is one number, the arrival time it predicts.
Residuals(t, m) == [i \in 1..Len(t) |-> t[i] - m]

\* Faulty variant: the refresh is skipped and the stored residuals stay.
update_residuals_skipped(t, m) == residuals

\* SimulatedPulsar.update_residuals: residuals of the current TOAs and model.
update_residuals(t, m) == Residuals(t, m)

\* toas.adjust_TOAs(delta): every timestamp moved by its offset.
adjust_TOAs(t, delta) == [i \in 1..Len(t) |-> t[i] + delta[i]]

\* Fitter.auto(...).fit_toas(): the least-squares prediction for a model of
\* one number, the mean arrival time (rounded down to a tick).
FitModel(t) == SumTo(t, Len(t)) \div Len(t)

\* ------------------------------------------- process-wide generator
\* np.random is a deterministic generator: its state is a number below
\* RngStates, a draw returns a value fixed by the state and steps the state.
\* np.random.randn(n): n values, one per step of the state.
Randn(s, n) == [k \in 1..n |-> ((s + k - 1) % RngStates) - (RngStates \div 2)]
\* The generator's state after n draws.
Advance(s, n) == (s + n) % RngStates
\* Lines 73-74 and 129-130: np.random.seed(seed) when a seed is given.
Reseed(s, seed) == IF seed = None THEN s ELSE seed.v[1] % RngStates

\* ------------------------------------------- add_measurement_noise
IsScalar(x) == x.kind = "scalar"

RECURSIVE Pow10(_)
Pow10(x) == IF x = 0 THEN 1 ELSE 10 * Pow10(x - 1)

\* Lines 69-72: equad = 10**log10_equad, or 0.0 when it is None.
Equad(log10_equad) ==
    IF log10_equad = None THEN Scalar(0)
    ELSE [log10_equad EXCEPT
             !.v = [k \in 1..Len(log10_equad.v) |-> Pow10(log10_equad.v[k])]]

\* Lines 77, 79 and 138: np.zeros(n).
Zeros(n) == [i \in 1..n |-> 0]
\* Lines 86-87 and 145: np.ones(n) * x.
Broadcast(n, x) == [i \in 1..n |-> x]

\* Lines 91-95 and 149-151: for ct, flag in enumerate(flags) the entries whose
\* own flag equals flag take vals[ct]; a later ct overwrites an earlier one,
\* entries matching no flag keep the default 0.
Scatter(vals, flags, own) ==
    [i \in 1..Len(own) |->
        LET hits == {ct \in 1..Len(flags) : flags[ct] = own[i]}
        IN IF hits = {} THEN 0
           ELSE vals[CHOOSE ct \in hits : \A d \in hits : d <= ct]]

\* Lines 76-97: the per-observation EFAC and EQUAD vectors, or the error the
\* call raises.  len() of a scalar raises TypeError; `and` stops at the first
\* false operand.
mn_vectors(efac, equad, flags) ==
    LET n == Len(toas)
        fail(e) == [outcome |-> e, efacvec |-> Zeros(n), equadvec |-> Zeros(n)]
    IN IF flags = None
       THEN IF ~IsScalar(efac) \/ ~IsScalar(equad)
            THEN fail("ValueError")
            ELSE [outcome |-> "ok",
                  efacvec |-> Broadcast(n, efac.v[1]),
                  equadvec |-> Broadcast(n, equad.v[1])]
       ELSE IF ~IsScalar(efac) \/ ~IsScalar(equad)
            THEN IF IsScalar(efac) THEN fail("TypeError")
                 ELSE IF Len(efac.v) # Len(flags.v) THEN fail("ValueError")
                 ELSE IF IsScalar(equad) THEN fail("TypeError")
                 ELSE IF Len(equad.v) # Len(flags.v) THEN fail("ValueError")
                 ELSE [outcome |-> "ok",
                       efacvec |-> Scatter(efac.v, flags.v, obsflags),
                       equadvec |-> Scatter(equad.v, flags.v, obsflags)]
            ELSE [outcome |-> "ok", efacvec |-> Zeros(n), equadvec |-> Zeros(n)]

\* Faulty variant: the EQUAD term loses its EFAC factor in both settings.
MeasurementOffsetsNoEfac(efacvec, equadvec, sigma, Z1, Z2, tnequad) ==
    [i \in 1..Len(sigma) |->
        efacvec[i] * sigma[i] * Z1[i] + equadvec[i] * Z2[i]]

\* Lines 99-103: the offset of every observation.
MeasurementOffsets(efacvec, equadvec, sigma, Z1, Z2, tnequad) ==
    [i \in 1..Len(sigma) |->
        efacvec[i] * sigma[i] * Z1[i]
          + (IF tnequad THEN equadvec[i] * Z2[i]
             ELSE efacvec[i] * equadvec[i] * Z2[i])]

\* Lines 99-106 for given vectors: two draws of n values, the offsets, the
\* adjusted TOAs and the refreshed residuals.
mn_apply(efacvec, equadvec, rng1, tnequad) ==
    LET n == Len(toas)
        Z1 == Randn(rng1, n)
        Z2 == Randn(Advance(rng1, n), n)
        dt == MeasurementOffsets(efacvec, equadvec, errors, Z1, Z2, tnequad)
        t2 == adjust_TOAs(toas, dt)
    IN [toas |-> t2, residuals |-> update_residuals(t2, model),
        rng |-> Advance(rng1, 2 * n), Z1 |-> Z1, Z2 |-> Z2, dt |-> dt]

\* What a raising call leaves behind: nothing after the reseeding has run.
Raised(rng1) ==
    [toas |-> toas, residuals |-> residuals, rng |-> rng1,
     Z1 |-> <<>>, Z2 |-> <<>>, dt |-> <<>>]

\* Faulty variant: the noise is injected before the parameters are checked,
\* an array parameter standing in with its first entry.
add_measurement_noise_eager(efac, log10_equad, flags, seed, tnequad) ==
    LET equad == Equad(log10_equad)
        rng1 == Reseed(rng, seed)
        val == mn_vectors(efac, equad, flags)
        n == Len(toas)
    IN [outcome |-> val.outcome, efacvec |-> val.efacvec, equadvec |-> val.equadvec,
        post |-> IF val.outcome = "ok"
                 THEN mn_apply(val.efacvec, val.equadvec, rng1, tnequad)
                 ELSE [mn_apply(Broadcast(n, efac.v[1]), Broadcast(n, equad.v[1]),
                                rng1, tnequad)
                          EXCEPT !.Z1 = <<>>, !.Z2 = <<>>, !.dt = <<>>]]

\* Lines 69-106: one call of add_measurement_noise on the handle.
add_measurement_noise(efac, log10_equad, flags, seed, tnequad) ==
    LET equad == Equad(log10_equad)
        rng1 == Reseed(rng, seed)
        val == mn_vectors(efac, equad, flags)
    IN [outcome |-> val.outcome, efacvec |-> val.efacvec, equadvec |-> val.equadvec,
        post |-> IF val.outcome = "ok"
                 THEN mn_apply(val.efacvec, val.equadvec, rng1, tnequad)
                 ELSE Raised(rng1)]

\* The handle and the generator as the call finds them.
Pre == [toas |-> toas, residuals |-> residuals, rng |-> rng, model |-> model]

AddMeasurementNoise(efac, log10_equad, flags, seed, tnequad) ==
    \E r \in {add_measurement_noise(efac, log10_equad, flags, seed, tnequad)} :
       /\ toas' = r.post.toas
       /\ residuals' = r.post.residuals
       /\ rng' = r.post.rng
       /\ last' = [op |-> "add_measurement_noise", pre |-> Pre,
                   efac |-> efac, equad |-> Equad(log10_equad), flags |-> flags,
                   seed |-> seed, tnequad |-> tnequad, outcome |-> r.outcome,
                   efacvec |-> r.efacvec, equadvec |-> r.equadvec,
                   Z1 |-> r.post.Z1, Z2 |-> r.post.Z2, dt |-> r.post.dt]
       /\ nOps' = nOps + 1
       /\ UNCHANGED <<errors, obsflags, model, q, ld>>

\* --------------------------------------------------------- add_jitter
\* Lines 137-153: the per-bucket ECORR vector, or the error the call raises.
\* aveflags are the buckets' flags, B the number of buckets.
jitter_vector(ecorr, flags, aveflags, B) ==
    IF flags = None
    THEN IF ~IsScalar(ecorr)
         THEN [outcome |-> "ValueError", ecorrvec |-> Zeros(B)]
         ELSE [outcome |-> "ok", ecorrvec |-> Broadcast(B, ecorr.v[1])]
    ELSE IF ~IsScalar(ecorr)
         THEN IF Len(ecorr.v) = Len(flags.v)
              THEN [outcome |-> "ok",
                    ecorrvec |-> Scatter(ecorr.v, flags.v, aveflags.v)]
              ELSE [outcome |-> "ValueError", ecorrvec |-> Zeros(B)]
         ELSE [outcome |-> "ok", ecorrvec |-> Zeros(B)]

\* Faulty variant: the draw of the first bucket is used for every bucket.
JitterOffsetsOneDraw(U, ecorrvec, Z) ==
    [i \in 1..Len(U) |->
        SumTo([b \in 1..Len(Z) |-> U[i][b] * ecorrvec[b] * Z[1]], Len(Z))]

\* Line 155: np.dot(U * ecorrvec, Z), U's column b scaled by ecorrvec[b].
JitterOffsets(U, ecorrvec, Z) ==
    [i \in 1..Len(U) |->
        SumTo([b \in 1..Len(Z) |-> U[i][b] * ecorrvec[b] * Z[b]], Len(Z))]

\* add_jitter takes any psr object.  SimulatedPulsar (simulate.py lines 19-60)
\* defines no flagvals, so psr.flagvals(flags) raises AttributeError on it;
\* another handle may provide it.
PsrKinds == {"SimulatedPulsar", "with_flagvals"}
ProvidesFlagvals(kind) == kind # "SimulatedPulsar"

\* Lines 129-158: one call of add_jitter, for one outcome isort of the
\* argsort inside quantize_fast.  psr.toas() is taken to return the
\* timestamps and psr.flagvals(flags), where psr has it, the observations'
\* flag values.
add_jitter(ecorr, flags, coarsegrain, seed, isort, kind) ==
    LET rng1 == Reseed(rng, seed)
        qf == quantize_fast(toas, IF flags = None THEN None ELSE Array(obsflags),
                            coarsegrain, isort)
        B == Len(qf.avetoas)
        val == jitter_vector(ecorr, flags, qf.aveflags, B)
        Z == Randn(rng1, Len(qf.U[1]))
        dt == JitterOffsets(qf.U, val.ecorrvec, Z)
        t2 == adjust_TOAs(toas, dt)
    IN IF flags # None /\ ~ProvidesFlagvals(kind)
       THEN [outcome |-> "AttributeError", ecorrvec |-> <<>>, qf |-> NoOut,
             post |-> Raised(rng1)]
       ELSE [outcome |-> val.outcome, ecorrvec |-> val.ecorrvec, qf |-> qf,
             post |-> IF val.outcome = "ok"
                      THEN [toas |-> t2, residuals |-> update_residuals(t2, model),
                            rng |-> Advance(rng1, Len(Z)),
                            Z1 |-> Z, Z2 |-> <<>>, dt |-> dt]
                      ELSE Raised(rng1)]

AddJitter(ecorr, flags, coarsegrain, seed, isort, kind) ==
    \E r \in {add_jitter(ecorr, flags, coarsegrain, seed, isort, kind)} :
       /\ toas' = r.post.toas
       /\ residuals' = r.post.residuals
       /\ rng' = r.post.rng
       /\ last' = [op |-> "add_jitter", pre |-> Pre,
                   ecorr |-> ecorr, flags |-> flags, coarsegrain |-> coarsegrain,
                   seed |-> seed, outcome |-> r.outcome,
                   ecorrvec |-> r.ecorrvec, bucket_ind |-> r.qf.bucket_ind,
                   U |-> r.qf.U, Z |-> r.post.Z1, dt |-> r.post.dt]
       /\ nOps' = nOps + 1
       /\ UNCHANGED <<errors, obsflags, model, q, ld>>

\* ------------------------------------------------- make_ideal and fit
\* simulate.py lines 120-122: each pass takes the current residuals off the
\* timestamps.
RECURSIVE IdealLoop(_, _, _)
IdealLoop(t, m, iterations) ==
    IF iterations = 0 THEN t
    ELSE IdealLoop(adjust_TOAs(t, [i \in 1..Len(t) |-> -Residuals(t, m)[i]]),
                   m, iterations - 1)

\* simulate.py lines 116-123: make_ideal(psr, iterations).
MakeIdeal(iterations) ==
    /\ toas' = IdealLoop(toas, model, iterations)
    /\ residuals' = update_residuals(toas', model)
    /\ last' = [op |-> "make_ideal", pre |-> Pre, iterations |-> iterations,
                outcome |-> "ok"]
    /\ nOps' = nOps + 1
    /\ UNCHANGED <<errors, obsflags, model, rng, q, ld>>

\* simulate.py lines 38-46: SimulatedPulsar.fit.
Fit ==
    /\ model' = FitModel(toas)
    /\ residuals' = update_residuals(toas, model')
    /\ last' = [op |-> "fit", pre |-> Pre, outcome |-> "ok"]
    /\ nOps' = nOps + 1
    /\ UNCHANGED <<toas, errors, obsflags, rng, q, ld>>

\* ------------------------------------------------ handle specification
\* psr.toas.get_errors(): the uncertainty a backend states for its TOAs.
SigmaOf(f) == IF f = "A" THEN 1 ELSE 2

\* The backends of n observations: one backend, or two taking turns.
FlagLayouts(n) ==
    {[i \in 1..n |-> "A"],
     [i \in 1..n |-> IF i % 2 = 1 THEN "A" ELSE "B"],
     [i \in 1..n |-> IF i % 2 = 1 THEN "B" ELSE "A"]}

\* A loaded handle of n observations: any times up to MaxTime, in any order,
\* each observation with the flag of its backend and that backend's
\* uncertainty; the time axis starts at the model's prediction; residuals as
\* load_pulsar line 81 computes them.
LoadedPsr(n) ==
    /\ toas \in [1..n -> 0..MaxTime]
    /\ obsflags \in FlagLayouts(n)
    /\ errors = [i \in 1..n |-> SigmaOf(obsflags[i])]
    /\ model = 0
    /\ residuals = Residuals(toas, model)
    /\ last = [op |-> "none"]
    /\ nOps = 0

QIdle == q = [pc |-> "idle"]

\* Single calls: the handle has 1..MaxN observations and the process-wide
\* generator is in any state.
Init ==
    /\ \E n \in 1..MaxN : LoadedPsr(n)
    /\ rng \in 0..(RngStates - 1)
    /\ QIdle /\ LdIdle

Efacs == {Scalar(2), Array(<<2>>), Array(<<1, 2>>)}
Log10Equads == {None, Scalar(0), Array(<<0>>), Array(<<0, 1>>)}
Ecorrs == {Scalar(3), Array(<<3>>), Array(<<1, 3>>)}
FlagArgs == {None, Array(<<"A", "B">>)}
Seeds == {None, Scalar(1)}
Coarsegrains == {1, 2}

\* One call on a freshly loaded handle.
Fresh == last.op = "none"

Next ==
    \/ /\ Fresh
       /\ \E efac \in Efacs, l \in Log10Equads, f \in FlagArgs, s \in Seeds,
             tn \in BOOLEAN :
             AddMeasurementNoise(efac, l, f, s, tn)
    \/ /\ Fresh
       /\ \E isort \in Argsorts(toas), kind \in PsrKinds :
            \E ecorr \in Ecorrs, f \in FlagArgs, cg \in Coarsegrains, s \in Seeds :
               \* the kind of handle matters only to a call with flags
               /\ f = None => kind = "SimulatedPulsar"
               /\ AddJitter(ecorr, f, cg, s, isort, kind)

Spec == Init /\ [][Next]_vars

\* Sequences of up to MaxOps operations on one handle of SeqN observations.
InitSeq ==
    /\ LoadedPsr(SeqN)
    /\ rng = 0
    /\ QIdle /\ LdIdle

SeqNoiseArgs ==
    {<<Scalar(2), Scalar(0), None>>,
     <<Array(<<1, 2>>), Array(<<0, 1>>), Array(<<"A", "B">>)>>,
     <<Array(<<1, 2>>), None, None>>,
     <<Array(<<1, 2>>), None, Array(<<"A", "B">>)>>}

SeqJitterArgs ==
    {<<Scalar(3), None>>,
     <<Array(<<1, 3>>), Array(<<"A", "B">>)>>,
     <<Array(<<1, 3>>), None>>}

Going == nOps < MaxOps

NextSeq ==
    \/ /\ Going
       /\ \E a \in SeqNoiseArgs :
            AddMeasurementNoise(a[1], a[2], a[3], None, FALSE)
    \/ /\ Going
       /\ \E isort \in Argsorts(toas), kind \in PsrKinds : \E a \in SeqJitterArgs :
            /\ a[2] = None => kind = "SimulatedPulsar"
            /\ AddJitter(a[1], a[2], 1, None, isort, kind)
    \/ /\ Going
       /\ \E iterations \in 0..MaxIter : MakeIdeal(iterations)
    \/ Going /\ Fit

SpecSeq == InitSeq /\ [][NextSeq]_vars

\* ---------------------------------------------------------- load_pulsar
\* A call of load_pulsar: whether the par and tim files exist and which of
\* the position parameters the timing model of the par file has.
LoadInputs ==
    [parfile : BOOLEAN, timfile : BOOLEAN,
     RAJ : BOOLEAN, DECJ : BOOLEAN, ELONG : BOOLEAN, ELAT : BOOLEAN]

InitLoad ==
    /\ \E in \in LoadInputs :
         ld = [pc |-> "files", in |-> in, err |-> "none", loc |-> {}]
    /\ PsrIdle
    /\ QIdle

\* simulate.py lines 74-82: the two file checks, then the model, the TOAs,
\* the residuals and the name are read.
LoadFiles ==
    /\ ld.pc = "files"
    /\ ld' = IF ~ld.in.parfile \/ ~ld.in.timfile
             THEN [ld EXCEPT !.pc = "done", !.err = "FileNotFoundError"]
             ELSE [ld EXCEPT !.pc = "loc"]
    /\ UNCHANGED <<psrVars, q>>

\* simulate.py lines 84-89: try RAJ/DECJ; on AttributeError take ELONG/ELAT,
\* whose own AttributeError is not caught; the else clause runs when the try
\* block raised nothing, and raises.
LoadLoc ==
    /\ ld.pc = "loc"
    /\ ld' = IF ld.in.RAJ /\ ld.in.DECJ
             THEN [ld EXCEPT !.pc = "done", !.err = "No pulsar location information",
                             !.loc = {"RAJ", "DECJ"}]
             ELSE IF ld.in.ELONG /\ ld.in.ELAT
             THEN [ld EXCEPT !.pc = "return", !.loc = {"ELONG", "ELAT"}]
             ELSE [ld EXCEPT !.pc = "done", !.err = "AttributeError"]
    /\ UNCHANGED <<psrVars, q>>

\* simulate.py line 91: the handle is built and returned.
LoadReturn ==
    /\ ld.pc = "return"
    /\ ld' = [ld EXCEPT !.pc = "done"]
    /\ UNCHANGED <<psrVars, q>>

NextLoad == LoadFiles \/ LoadLoc \/ LoadReturn

SpecLoad == InitLoad /\ [][NextLoad]_vars

\* ------------------------------------------------ quantizer properties
QN == Len(q.in.times)
QB == Len(q.out.bucket_ind)
QMembers(c) == Range(q.out.bucket_ind[c])
QFirst(c) == q.out.bucket_ind[c][1]
QLast(c) == q.out.bucket_ind[c][Len(q.out.bucket_ind[c])]

\* C1: for every non-empty times and dt > 0 the mapping matrix U has one row
\* per observation and one column per bucket, every row holds exactly one 1,
\* every column at least one 1; the buckets' member sets are pairwise
\* disjoint and their union is the full index set.
C1_Partition ==
    q.pc = "done" =>
        /\ Len(q.out.U) = QN
        /\ \A r \in 1..QN :
             /\ Len(q.out.U[r]) = QB
             /\ \A c \in 1..QB : q.out.U[r][c] \in {0, 1}
             /\ SumTo(q.out.U[r], QB) = 1
        /\ \A c \in 1..QB :
             /\ SumTo([r \in 1..QN |-> q.out.U[r][c]], QN) >= 1
             /\ \A r \in 1..QN : q.out.U[r][c] = 1 <=> r \in QMembers(c)
        /\ \A c, d \in 1..QB : c # d => QMembers(c) \cap QMembers(d) = {}
        /\ UNION {QMembers(c) : c \in 1..QB} = 1..QN

\* C1 witness: three unsorted observations fall into two buckets, one of
\* them with two members.
C1_Witness ==
    /\ q.pc = "done"
    /\ QN = 3 /\ QB = 2
    /\ q.in.times[1] > q.in.times[2]
    /\ \E c \in 1..QB : Cardinality(QMembers(c)) = 2

\* Every member of a bucket lies less than dt after the bucket's anchor, the
\* time of its first member.
QWithinAnchor ==
    \A c \in 1..QB :
        /\ q.out.bucket_ref[c] = q.in.times[QFirst(c)]
        /\ \A m \in QMembers(c) :
             q.in.times[m] - q.out.bucket_ref[c] < q.in.dt

\* C2 as stated: the gap from the last member of bucket k to the first member
\* of bucket k+1 is >= dt, and every member is less than dt after its anchor.
C2_AsStated ==
    q.pc = "done" =>
        /\ \A k \in 1..(QB - 1) :
             q.in.times[QFirst(k + 1)] - q.in.times[QLast(k)] >= q.in.dt
        /\ QWithinAnchor

\* C2 amended: the gap from the anchor (first member) of bucket k to the first
\* member of bucket k+1 is >= dt, and every member is less than dt after its
\* bucket's anchor.
C2_AnchorGap ==
    q.pc = "done" =>
        /\ \A k \in 1..(QB - 1) :
             q.in.times[QFirst(k + 1)] - q.out.bucket_ref[k] >= q.in.dt
        /\ QWithinAnchor

\* C2 witness: a bucket with a later member that is closer than dt to the
\* first member of the next bucket.
C2_Witness ==
    /\ q.pc = "done"
    /\ \E k \in 1..(QB - 1) :
         /\ Cardinality(QMembers(k)) >= 2
         /\ q.in.times[QFirst(k + 1)] - q.in.times[QLast(k)] < q.in.dt

\* --------------------------------------------------- handle properties
IsNoise == last.op = "add_measurement_noise"
IsJitter == last.op = "add_jitter"
NObs == Len(toas)
Moved(i) == toas[i] - last.pre.toas[i]
HandleUntouched ==
    /\ toas = last.pre.toas
    /\ residuals = last.pre.residuals
    /\ model = last.pre.model

\* The combinations the specification names as configuration errors.
ArrayOfOtherLength(x) == x.kind = "array" /\ Len(x.v) # Len(last.flags.v)
ConfigurationErrorExpected ==
    IF last.flags = None
    THEN ~IsScalar(last.efac) \/ ~IsScalar(last.equad)
    ELSE ArrayOfOtherLength(last.efac) \/ ArrayOfOtherLength(last.equad)

\* C3 as stated: add_measurement_noise fails with the configuration error
\* exactly when flags is omitted and efac or equad is not a scalar, or flags
\* is given and an array-valued efac or equad has another length than flags;
\* every other combination is accepted without any error.
C3_AsStated ==
    IsNoise =>
        IF ConfigurationErrorExpected THEN last.outcome = "ValueError"
        ELSE last.outcome = "ok"

\* C4: a call of add_measurement_noise or add_jitter that fails leaves the
\* handle as it was: no timestamp adjusted, the stored residuals unchanged.
C4_FailureLeavesHandle ==
    (IsNoise \/ IsJitter) /\ last.outcome # "ok" => HandleUntouched

\* C4 witness: a call with flags and a per-flag array of the wrong length has
\* failed on a handle of three observations.
C4_Witness ==
    /\ IsNoise
    /\ last.outcome = "ValueError"
    /\ last.flags # None
    /\ NObs = 3

\* C5 as stated: a call given a seed that fails validation has changed no
\* state at all, the process-wide generator included.
C5_AsStated ==
    (IsNoise \/ IsJitter) /\ last.outcome = "ValueError" /\ last.seed # None =>
        HandleUntouched /\ rng = last.pre.rng

\* C6 as stated: a scalar parameter is applied uniformly, with or without
\* flags: every observation's EFAC and EQUAD, every bucket's ECORR, equals
\* the scalar.
C6_AsStated ==
    /\ IsNoise /\ IsScalar(last.efac) /\ IsScalar(last.equad) =>
          /\ last.outcome = "ok"
          /\ \A i \in 1..NObs :
               /\ last.efacvec[i] = last.efac.v[1]
               /\ last.equadvec[i] = last.equad.v[1]
    /\ IsJitter /\ IsScalar(last.ecorr) =>
          /\ last.outcome = "ok"
          /\ \A b \in 1..Len(last.ecorrvec) : last.ecorrvec[b] = last.ecorr.v[1]

\* C7: every observation i is moved by EFAC_i*sigma_i*Z1_i + EFAC_i*EQUAD_i*Z2_i
\* when tnequad is false and by EFAC_i*sigma_i*Z1_i + EQUAD_i*Z2_i when it is
\* true, EFAC_i and EQUAD_i being the per-observation coefficients of the call
\* and Z1, Z2 two separate draws of one value per observation.
C7_OffsetFormula ==
    IsNoise /\ last.outcome = "ok" =>
        /\ Len(last.Z1) = NObs /\ Len(last.Z2) = NObs
        /\ rng = Advance(Reseed(last.pre.rng, last.seed), 2 * NObs)
        /\ \A i \in 1..NObs :
             Moved(i) =
                 last.efacvec[i] * errors[i] * last.Z1[i]
                   + (IF last.tnequad THEN 1 ELSE last.efacvec[i])
                       * last.equadvec[i] * last.Z2[i]

\* C7 witness: a default-setting call in which an observation with EFAC 2 has
\* a non-zero EQUAD term and two different draws.
C7_Witness ==
    /\ IsNoise /\ last.outcome = "ok" /\ ~last.tnequad
    /\ \E i \in 1..NObs :
         /\ last.efacvec[i] = 2
         /\ last.equadvec[i] * last.Z2[i] # 0
         /\ last.Z1[i] # last.Z2[i]

JBuckets == 1..Len(last.bucket_ind)
InBucket(i, b) == i \in Range(last.bucket_ind[b])

\* C8: add_jitter makes one draw per bucket and moves observation i by
\* ECORR_b * Z_b for the single bucket b that holds i; two observations of
\* one bucket are moved alike.
C8_JitterPerBucket ==
    IsJitter /\ last.outcome = "ok" =>
        /\ Len(last.Z) = Len(last.bucket_ind)
        /\ rng = Advance(Reseed(last.pre.rng, last.seed), Len(last.bucket_ind))
        /\ \A i \in 1..NObs :
             /\ Cardinality({b \in JBuckets : InBucket(i, b)}) = 1
             /\ \A b \in JBuckets :
                  InBucket(i, b) => Moved(i) = last.ecorrvec[b] * last.Z[b]
        /\ \A i, j \in 1..NObs :
             (\E b \in JBuckets : InBucket(i, b) /\ InBucket(j, b))
                 => Moved(i) = Moved(j)

\* C8 witness: three observations in two buckets, one bucket of two members
\* moved by a non-zero amount, the other bucket with another draw.
C8_Witness ==
    /\ IsJitter /\ last.outcome = "ok"
    /\ NObs = 3 /\ Len(last.bucket_ind) = 2
    /\ last.Z[1] # last.Z[2]
    /\ \E b \in JBuckets :
         /\ Len(last.bucket_ind[b]) = 2
         /\ last.ecorrvec[b] * last.Z[b] # 0

\* C9: after any sequence of operations, failed calls included, the stored
\* residuals are the residuals of the current TOAs and model.
C9_ResidualsFresh == residuals = Residuals(toas, model)

\* C9 witness: make_ideal with zero iterations has returned on a handle whose
\* timestamps an earlier operation had moved off their loaded values.
C9_Witness ==
    /\ last.op = "make_ideal" /\ last.iterations = 0
    /\ nOps >= 2
    /\ \E i \in 1..NObs : toas[i] < 0 \/ toas[i] > MaxTime

\* ----------------------------------------------------- load properties
LoadReturned == ld.pc = "done" /\ ld.err = "none"

\* C10 as stated: on existing files load_pulsar raises the 'No pulsar location
\* information' error only when the model has neither RAJ/DECJ nor ELONG/ELAT;
\* with RAJ and DECJ it returns a handle with loc = {RAJ, DECJ}, with only
\* ELONG and ELAT a handle with loc = {ELONG, ELAT}.
C10_AsStated ==
    ld.pc = "done" /\ ld.in.parfile /\ ld.in.timfile =>
        /\ ld.err = "No pulsar location information" =>
              ~(ld.in.RAJ /\ ld.in.DECJ) /\ ~(ld.in.ELONG /\ ld.in.ELAT)
        /\ ld.in.RAJ /\ ld.in.DECJ =>
              LoadReturned /\ ld.loc = {"RAJ", "DECJ"}
        /\ ~ld.in.RAJ /\ ~ld.in.DECJ /\ ld.in.ELONG /\ ld.in.ELAT =>
              LoadReturned /\ ld.loc = {"ELONG", "ELAT"}

====
